---- MODULE Spec2Model ----
(***************************************************************************)
(* Model of src/toonConverter.ts: the normalizer (normalize) and the TOON  *)
(* encoder (encodeToon and its helpers).                                   *)
(*                                                                         *)
(* Text is a sequence of one-character strings, so that quoting, escaping, *)
(* joining, splitting and stripping are computed character by character.   *)
(* A host (JavaScript) value is a record tagged by its runtime type in     *)
(* field t; an object is the sequence of its <<key, value>> insertions.    *)
(* A thrown exception is the record [t |-> "throw", err |-> ...].          *)
(***************************************************************************)
EXTENDS Integers, Sequences, FiniteSets, TLC

VARIABLES pc, input, opts, v, out

vars == <<pc, input, opts, v, out>>

(***************************************************************************)
(* Bounds of the model.                                                    *)
(***************************************************************************)
MaxDigits == 3
MaxExp == 23
MinExpBelow == 8
MaxStrLen == 3
MaxItems == 2
MaxFields == 2

(***************************************************************************)
(* Characters and text helpers (JavaScript String primitives).             *)
(***************************************************************************)
TAB == "\t"
LF == "\n"
CR == "\r"
FF == "\f"
QUOTE == "\""
BACKSLASH == "\\"
SPACE == " "
COMMA == ","
COLON == ":"
DOT == "."
DASH == "-"
PLUS == "+"

DigitChars == {"0", "1", "2", "3", "4", "5", "6", "7", "8", "9"}

\* code points below 0x20 that occur in the model's alphabet
ControlChars == {TAB, LF, CR, FF}

\* the characters String.prototype.trim removes that occur in the alphabet
TrimChars == {SPACE, TAB, LF, CR, FF}

RECURSIVE Concat(_)
Concat(parts) ==
  IF parts = <<>> THEN <<>> ELSE Head(parts) \o Concat(Tail(parts))

\* Array.prototype.join
RECURSIVE Join(_, _)
Join(parts, sep) ==
  IF parts = <<>> THEN <<>>
  ELSE IF Len(parts) = 1 THEN parts[1]
  ELSE parts[1] \o sep \o Join(Tail(parts), sep)

\* String.prototype.repeat
RECURSIVE Repeat(_, _)
Repeat(s, n) == IF n <= 0 THEN <<>> ELSE s \o Repeat(s, n - 1)

\* String.prototype.includes for a single character
Includes(s, ch) == \E i \in 1..Len(s) : s[i] = ch

\* String.prototype.slice(from) / slice(0, to), 0-based as in the source
SliceFrom(s, from) == SubSeq(s, from + 1, Len(s))
SliceTo(s, to) == SubSeq(s, 1, to)

AllDigits(s) == \A i \in 1..Len(s) : s[i] \in DigitChars

DigitVal(ch) ==
  CASE ch = "0" -> 0 [] ch = "1" -> 1 [] ch = "2" -> 2 [] ch = "3" -> 3
    [] ch = "4" -> 4 [] ch = "5" -> 5 [] ch = "6" -> 6 [] ch = "7" -> 7
    [] ch = "8" -> 8 [] ch = "9" -> 9

DigitChar(d) ==
  CASE d = 0 -> "0" [] d = 1 -> "1" [] d = 2 -> "2" [] d = 3 -> "3"
    [] d = 4 -> "4" [] d = 5 -> "5" [] d = 6 -> "6" [] d = 7 -> "7"
    [] d = 8 -> "8" [] d = 9 -> "9"

\* decimal rendering of a non-negative integer (template literal `${N}`)
RECURSIVE NatToText(_)
NatToText(n) ==
  IF n < 10 THEN <<DigitChar(n)>>
  ELSE NatToText(n \div 10) \o <<DigitChar(n % 10)>>

\* value of a run of decimal digits
RECURSIVE DigitsToNat(_)
DigitsToNat(s) ==
  IF s = <<>> THEN 0
  ELSE 10 * DigitsToNat(SubSeq(s, 1, Len(s) - 1)) + DigitVal(s[Len(s)])

\* parseInt(s, 10) on [+-]?\d+
parseInt(s) ==
  IF s[1] = DASH THEN 0 - DigitsToNat(Tail(s))
  ELSE IF s[1] = PLUS THEN DigitsToNat(Tail(s))
  ELSE DigitsToNat(s)

\* s.replace(/^0+/, "")
RECURSIVE StripLeadingZeros(_)
StripLeadingZeros(s) ==
  IF s # <<>> /\ s[1] = "0" THEN StripLeadingZeros(Tail(s)) ELSE s

\* out.replace(/^0+(?=\d)/, ""): leading zeros go while a digit follows
RECURSIVE StripRedundantLeadingZeros(_)
StripRedundantLeadingZeros(s) ==
  IF Len(s) >= 2 /\ s[1] = "0" /\ s[2] \in DigitChars
  THEN StripRedundantLeadingZeros(Tail(s))
  ELSE s

RECURSIVE StripTrailingZeroRun(_, _)
StripTrailingZeroRun(s, floor) ==
  IF Len(s) > floor /\ s[Len(s)] = "0"
  THEN StripTrailingZeroRun(SubSeq(s, 1, Len(s) - 1), floor)
  ELSE s

\* s.replace(/(\.\d*?)0+$/, "$1"): from the leftmost "." that is followed by
\* digits only up to the end, the trailing run of zeros is removed
StripFractionZeros(s) ==
  LET dots == {i \in 1..Len(s) : s[i] = DOT /\ AllDigits(SubSeq(s, i + 1, Len(s)))}
  IN IF dots = {} \/ s[Len(s)] # "0" THEN s
     ELSE LET p == CHOOSE i \in dots : \A j \in dots : i <= j
          IN StripTrailingZeroRun(s, p)

\* s.replace(/\.$/, "")
StripFinalDot(s) ==
  IF s # <<>> /\ s[Len(s)] = DOT THEN SubSeq(s, 1, Len(s) - 1) ELSE s

(***************************************************************************)
(* Numbers.  A host number is [cls, neg, digits, exp]: cls is "finite",    *)
(* "nan" or "inf"; for a finite non-zero number digits is its shortest     *)
(* significand (first and last digit non-zero) and exp the position of the *)
(* decimal point after the first exp digits (value = 0.digits * 10^exp),   *)
(* the n of ECMAScript's Number::toString.  Zero has digits <<>>; neg      *)
(* distinguishes -0.                                                       *)
(***************************************************************************)
Num(neg, digits, exp) ==
  [cls |-> "finite", neg |-> neg, digits |-> digits, exp |-> exp]
NaN == [cls |-> "nan", neg |-> FALSE, digits |-> <<>>, exp |-> 0]
Infinity(neg) == [cls |-> "inf", neg |-> neg, digits |-> <<>>, exp |-> 0]
Zero == Num(FALSE, <<>>, 0)
NegZero == Num(TRUE, <<>>, 0)

\* Number.isFinite
NumberIsFinite(n) == n.cls = "finite"

\* Object.is(n, -0)
IsNegZero(n) == n.cls = "finite" /\ n.digits = <<>> /\ n.neg

\* String(n) for a number: ECMAScript Number::toString, radix 10
NumberToString(n) ==
  IF n.cls = "nan" THEN <<"N", "a", "N">>
  ELSE IF n.cls = "inf"
  THEN (IF n.neg THEN <<DASH>> ELSE <<>>) \o <<"I", "n", "f", "i", "n", "i", "t", "y">>
  ELSE IF n.digits = <<>> THEN <<"0">>
  ELSE
    LET k == Len(n.digits)
        e == n.exp
        sign == IF n.neg THEN <<DASH>> ELSE <<>>
        body ==
          IF k <= e /\ e <= 21 THEN n.digits \o Repeat(<<"0">>, e - k)
          ELSE IF 0 < e /\ e <= 21
          THEN SliceTo(n.digits, e) \o <<DOT>> \o SliceFrom(n.digits, e)
          ELSE IF -6 < e /\ e <= 0
          THEN <<"0", DOT>> \o Repeat(<<"0">>, 0 - e) \o n.digits
          ELSE
            LET x == e - 1
                es == (IF x < 0 THEN <<DASH>> ELSE <<PLUS>>)
                        \o NatToText(IF x < 0 THEN 0 - x ELSE x)
            IN IF k = 1 THEN n.digits \o <<"e">> \o es
               ELSE <<n.digits[1]>> \o <<DOT>> \o Tail(n.digits) \o <<"e">> \o es
    IN sign \o body

\* s.match(/^([+-]?)(\d+)(?:\.(\d+))?[eE]([+-]?\d+)$/): the groups, or ok FALSE
MatchExponential(s) ==
  LET es == {i \in 1..Len(s) : s[i] \in {"e", "E"}}
      fail == [ok |-> FALSE, sign |-> <<>>, int |-> <<>>, frac |-> <<>>, exp |-> <<>>]
  IN IF Cardinality(es) # 1 THEN fail
     ELSE
       LET p == CHOOSE i \in es : TRUE
           mant == SubSeq(s, 1, p - 1)
           ex == SubSeq(s, p + 1, Len(s))
           sg == IF mant # <<>> /\ mant[1] \in {PLUS, DASH} THEN <<mant[1]>> ELSE <<>>
           m2 == SubSeq(mant, Len(sg) + 1, Len(mant))
           ds == {i \in 1..Len(m2) : m2[i] = DOT}
           ip == IF ds = {} THEN m2
                 ELSE SubSeq(m2, 1, (CHOOSE i \in ds : \A j \in ds : i <= j) - 1)
           fp == IF ds = {} THEN <<>> ELSE SubSeq(m2, Len(ip) + 2, Len(m2))
           exd == IF ex # <<>> /\ ex[1] \in {PLUS, DASH} THEN Tail(ex) ELSE ex
       IN IF /\ ip # <<>> /\ AllDigits(ip)
             /\ (ds = {} \/ (fp # <<>> /\ AllDigits(fp)))
             /\ exd # <<>> /\ AllDigits(exd)
          THEN [ok |-> TRUE, sign |-> sg, int |-> ip, frac |-> fp, exp |-> ex]
          ELSE fail

\* ShiftPoint with the zero padding of line 163 one short
ShiftPointShortPad(digits, newPos) ==
  IF newPos <= 0
  THEN LET stripped == StripLeadingZeros(digits)
       IN IF Len(stripped) = 0 THEN [early |-> TRUE, text |-> <<"0">>]
          ELSE [early |-> FALSE,
                text |-> <<"0", DOT>> \o Repeat(<<"0">>, 0 - newPos) \o stripped]
  ELSE IF newPos >= Len(digits)
  THEN [early |-> FALSE,
        text |-> digits \o Repeat(<<"0">>, newPos - Len(digits) - 1)]
  ELSE [early |-> FALSE,
        text |-> SliceTo(digits, newPos) \o <<DOT>> \o SliceFrom(digits, newPos)]

\* the decimal point shifted by the exponent (source lines 158-166); the
\* result is the text, or the early `return "0"` of line 160
ShiftPoint(digits, newPos) ==
  IF newPos <= 0
  THEN LET stripped == StripLeadingZeros(digits)
       IN IF Len(stripped) = 0 THEN [early |-> TRUE, text |-> <<"0">>]
          ELSE [early |-> FALSE,
                text |-> <<"0", DOT>> \o Repeat(<<"0">>, 0 - newPos) \o stripped]
  ELSE IF newPos >= Len(digits)
  THEN [early |-> FALSE, text |-> digits \o Repeat(<<"0">>, newPos - Len(digits))]
  ELSE [early |-> FALSE,
        text |-> SliceTo(digits, newPos) \o <<DOT>> \o SliceFrom(digits, newPos)]

\* lines 169-170 (and line 140): trailing fraction zeros and a final dot go
tidyFraction(t) ==
  IF Includes(t, DOT) THEN StripFinalDot(StripFractionZeros(t)) ELSE t

\* lines 158-172 on the shifted text
signedResult(sign, sh) ==
  IF sh.early THEN sh.text
  ELSE sign \o tidyFraction(StripRedundantLeadingZeros(sh.text))

\* lines 144-172 on the match m of the native rendering s
expandExponential(s, m) ==
  IF ~m.ok THEN s
  ELSE signedResult(IF m.sign = <<DASH>> THEN <<DASH>> ELSE <<>>,
                    ShiftPoint(m.int \o m.frac, Len(m.int) + parseInt(m.exp)))

\* lines 139-172 on the native rendering s = String(n)
canonicalOfNative(s) ==
  IF ~(Includes(s, "e") \/ Includes(s, "E")) THEN tidyFraction(s)
  ELSE expandExponential(s, MatchExponential(s))

encodeNumberCanonical(n) ==
  IF ~NumberIsFinite(n) THEN <<"n", "u", "l", "l">>
  ELSE IF IsNegZero(n) THEN <<"0">>
  ELSE canonicalOfNative(NumberToString(n))

(***************************************************************************)
(* Strings: quoting and escaping (source lines 96-131).                    *)
(***************************************************************************)
TRUE_TOKEN == <<"t", "r", "u", "e">>
FALSE_TOKEN == <<"f", "a", "l", "s", "e">>
NULL_TOKEN == <<"n", "u", "l", "l">>

\* the index of the last character of the longest run of digits that starts
\* at index i (i - 1 when s[i] is not a digit): a greedy \d*
RECURSIVE DigitRunEnd(_, _)
DigitRunEnd(s, i) ==
  IF i <= Len(s) /\ s[i] \in DigitChars THEN DigitRunEnd(s, i + 1) ELSE i - 1

\* /^-?(0|[1-9]\d*)(\.\d+)?([eE][+-]?\d+)?$/.test(s), matched left to right.
\* The digits of an exponent start at d0 and must run to the end of s.
matchExponentDigits(s, d0) ==
  d0 <= Len(s) /\ s[d0] \in DigitChars /\ DigitRunEnd(s, d0) = Len(s)

\* ([eE][+-]?\d+)?$ after the first b characters
matchExponent(s, b) ==
  IF b = Len(s) THEN TRUE
  ELSE /\ s[b + 1] \in {"e", "E"}
       /\ matchExponentDigits(s, IF b + 2 <= Len(s) /\ s[b + 2] \in {PLUS, DASH}
                                 THEN b + 3 ELSE b + 2)

\* (\.\d+)? and the rest after the first a characters
matchFraction(s, a) ==
  IF a + 2 <= Len(s) /\ s[a + 1] = DOT /\ s[a + 2] \in DigitChars
  THEN matchExponent(s, DigitRunEnd(s, a + 2))
  ELSE matchExponent(s, a)

\* (0|[1-9]\d*) and the rest from index i0
matchInteger(s, i0) ==
  IF i0 > Len(s) THEN FALSE
  ELSE IF s[i0] = "0" THEN matchFraction(s, i0)
  ELSE IF s[i0] \in DigitChars THEN matchFraction(s, DigitRunEnd(s, i0 + 1))
  ELSE FALSE

looksLikeNumber(s) ==
  matchInteger(s, IF Len(s) >= 1 /\ s[1] = DASH THEN 2 ELSE 1)

\* s.trim()
RECURSIVE TrimStart(_)
TrimStart(s) == IF s # <<>> /\ s[1] \in TrimChars THEN TrimStart(Tail(s)) ELSE s

RECURSIVE TrimEnd(_)
TrimEnd(s) ==
  IF s # <<>> /\ s[Len(s)] \in TrimChars
  THEN TrimEnd(SubSeq(s, 1, Len(s) - 1))
  ELSE s

Trim(s) == TrimEnd(TrimStart(s))

\* needsQuotes without the colon test of line 110
needsQuotesNoColon(s, delimiter) ==
  IF Len(s) = 0 THEN TRUE
  ELSE IF s # Trim(s) THEN TRUE
  ELSE IF s = TRUE_TOKEN \/ s = FALSE_TOKEN \/ s = NULL_TOKEN THEN TRUE
  ELSE IF looksLikeNumber(s) THEN TRUE
  ELSE IF s = <<DASH>> \/ s[1] = DASH THEN TRUE
  ELSE IF \E i \in 1..Len(s) : s[i] \in ControlChars THEN TRUE
  ELSE IF Includes(s, QUOTE) \/ Includes(s, BACKSLASH) THEN TRUE
  ELSE IF Includes(s, delimiter) THEN TRUE
  ELSE IF Includes(s, COMMA) \/ Includes(s, TAB) THEN TRUE
  ELSE FALSE

needsQuotes(s, delimiter) ==
  IF Len(s) = 0 THEN TRUE
  ELSE IF s # Trim(s) THEN TRUE
  ELSE IF s = TRUE_TOKEN \/ s = FALSE_TOKEN \/ s = NULL_TOKEN THEN TRUE
  ELSE IF looksLikeNumber(s) THEN TRUE
  ELSE IF s = <<DASH>> \/ s[1] = DASH THEN TRUE
  ELSE IF \E i \in 1..Len(s) : s[i] \in ControlChars THEN TRUE
  ELSE IF Includes(s, QUOTE) \/ Includes(s, BACKSLASH) THEN TRUE
  ELSE IF Includes(s, COLON) THEN TRUE
  ELSE IF Includes(s, delimiter) THEN TRUE
  ELSE IF Includes(s, COMMA) \/ Includes(s, TAB) THEN TRUE
  ELSE FALSE

\* s.replace(/ch/g, repl)
RECURSIVE ReplaceAll(_, _, _)
ReplaceAll(s, ch, repl) ==
  IF s = <<>> THEN <<>>
  ELSE (IF s[1] = ch THEN repl ELSE <<s[1]>>) \o ReplaceAll(Tail(s), ch, repl)

escapeQuoted(s) ==
  LET s1 == ReplaceAll(s, BACKSLASH, <<BACKSLASH, BACKSLASH>>)
      s2 == ReplaceAll(s1, QUOTE, <<BACKSLASH, QUOTE>>)
      s3 == ReplaceAll(s2, LF, <<BACKSLASH, "n">>)
      s4 == ReplaceAll(s3, CR, <<BACKSLASH, "r">>)
      s5 == ReplaceAll(s4, TAB, <<BACKSLASH, "t">>)
  IN s5

encodeString(s, delimiter) ==
  IF needsQuotes(s, delimiter) THEN <<QUOTE>> \o escapeQuoted(s) \o <<QUOTE>> ELSE s

encodeKey(k, delimiter) == encodeString(k, delimiter)

(***************************************************************************)
(* Host values.  t is the runtime kind: "undefined", "null", "boolean",    *)
(* "number", "string", "bigint", "function", "symbol", "date", "array",    *)
(* "object" (plain: prototype Object.prototype or null) and "instance"     *)
(* (any other object).  The canonical values (type Json) are those built   *)
(* from "null", "boolean", finite "number", "string", "array", "object".   *)
(***************************************************************************)
Undefined == [t |-> "undefined"]
Null == [t |-> "null"]
Bool(b) == [t |-> "boolean", b |-> b]
Number(n) == [t |-> "number", n |-> n]
Str(s) == [t |-> "string", s |-> s]
BigInt(digits) == [t |-> "bigint", s |-> digits]
Fn == [t |-> "function"]
Sym == [t |-> "symbol"]
\* a Date: valid with its toISOString() text, or an invalid Date
Date(valid, iso) == [t |-> "date", valid |-> valid, s |-> iso]
\* a non-plain object with its String(input) text
Instance(str) == [t |-> "instance", s |-> str]
Arr(items) == [t |-> "array", items |-> items]
\* fields: the <<key, value>> pairs in insertion order, keys distinct
Obj(fields) == [t |-> "object", fields |-> fields]

Throw(err) == [t |-> "throw", err |-> err]

\* typeof
TypeOf(x) ==
  IF x.t \in {"null", "date", "array", "object", "instance"} THEN "object" ELSE x.t

\* Array.isArray
IsArray(x) == x.t = "array"

isPlainObject(x) == x.t = "object"

\* the largest array index, 2^32 - 2, as a numeral
MAX_ARRAY_INDEX == <<"4", "2", "9", "4", "9", "6", "7", "2", "9", "4">>

\* a <= b for numerals without redundant leading zeros
RECURSIVE LexLeq(_, _)
LexLeq(a, b) ==
  IF a = <<>> THEN TRUE
  ELSE IF a[1] # b[1] THEN DigitVal(a[1]) < DigitVal(b[1])
  ELSE LexLeq(Tail(a), Tail(b))

NumeralLeq(a, b) == Len(a) < Len(b) \/ (Len(a) = Len(b) /\ LexLeq(a, b))

\* an integer-index property key: the canonical numeral of an array index
IsIndexKey(k) ==
  /\ k # <<>>
  /\ AllDigits(k)
  /\ (Len(k) > 1 => k[1] # "0")
  /\ NumeralLeq(k, MAX_ARRAY_INDEX)

RECURSIVE SortIndexKeys(_)
SortIndexKeys(ks) ==
  IF ks = {} THEN <<>>
  ELSE LET m == CHOOSE k \in ks : \A j \in ks : NumeralLeq(k, j)
       IN <<m>> \o SortIndexKeys(ks \ {m})

\* Object.keys: the own enumerable string keys in OrdinaryOwnPropertyKeys
\* order, integer-index keys ascending, then the others in insertion order
ObjectKeys(o) ==
  LET ins == [i \in 1..Len(o.fields) |-> o.fields[i][1]]
      idx == {ins[i] : i \in {j \in 1..Len(ins) : IsIndexKey(ins[j])}}
  IN SortIndexKeys(idx) \o SelectSeq(ins, LAMBDA k : ~IsIndexKey(k))

\* o[k]: the value of property k, undefined when absent
Get(o, k) ==
  IF \E i \in 1..Len(o.fields) : o.fields[i][1] = k
  THEN o.fields[CHOOSE i \in 1..Len(o.fields) : o.fields[i][1] = k][2]
  ELSE Undefined

(***************************************************************************)
(* normalize (source lines 29-85).  The result is the canonical value or   *)
(* the exception thrown; an exception raised for an element or a field     *)
(* value propagates from the first one in iteration order.                 *)
(***************************************************************************)
FirstThrow(results) ==
  results[CHOOSE i \in 1..Len(results) :
            /\ results[i].t = "throw"
            /\ \A j \in 1..(i - 1) : results[j].t # "throw"]

AnyThrow(results) == \E i \in 1..Len(results) : results[i].t = "throw"

\* line 78 written with loose equality (v == null): null fields are skipped
IsMissingOrNull(x) == x.t \in {"undefined", "null"}

\* typeof v === "undefined" (lines 70 and 78)
IsMissing(x) == TypeOf(x) = "undefined"

\* Date.prototype.toISOString: throws RangeError on an invalid Date
toISOString(d) == IF d.valid THEN Str(d.s) ELSE Throw("RangeError")

RECURSIVE normalize(_, _)
normalize(x, sanitizeJs) ==
  IF ~sanitizeJs THEN
    IF x.t = "null" THEN Null
    ELSE IF TypeOf(x) = "boolean" THEN x
    ELSE IF TypeOf(x) = "string" THEN x
    ELSE IF TypeOf(x) = "number" THEN
      IF ~NumberIsFinite(x.n) THEN Throw("Error: Non-finite number in strict mode")
      ELSE IF IsNegZero(x.n) THEN Number(Zero) ELSE x
    ELSE IF IsArray(x) THEN
      LET rs == [i \in 1..Len(x.items) |-> normalize(x.items[i], FALSE)]
      IN IF AnyThrow(rs) THEN FirstThrow(rs) ELSE Arr(rs)
    ELSE IF isPlainObject(x) THEN
      LET ks == ObjectKeys(x)
          rs == [i \in 1..Len(ks) |-> normalize(Get(x, ks[i]), FALSE)]
      IN IF AnyThrow(rs) THEN FirstThrow(rs)
         ELSE Obj([i \in 1..Len(ks) |-> <<ks[i], rs[i]>>])
    ELSE Throw("Error: Non-JSON type in strict mode")
  ELSE
    IF x.t = "null" THEN Null
    ELSE IF TypeOf(x) = "boolean" \/ TypeOf(x) = "string" THEN x
    ELSE IF TypeOf(x) = "number" THEN
      IF ~NumberIsFinite(x.n) THEN Null
      ELSE IF IsNegZero(x.n) THEN Number(Zero) ELSE x
    ELSE IF TypeOf(x) = "bigint" THEN Str(x.s)
    ELSE IF TypeOf(x) \in {"undefined", "function", "symbol"} THEN Null
    ELSE IF x.t = "date" THEN toISOString(x)
    ELSE IF IsArray(x) THEN
      LET rs == [i \in 1..Len(x.items) |->
                   IF IsMissing(x.items[i]) THEN Null
                   ELSE normalize(x.items[i], TRUE)]
      IN IF AnyThrow(rs) THEN FirstThrow(rs) ELSE Arr(rs)
    ELSE IF isPlainObject(x) THEN
      LET ks == SelectSeq(ObjectKeys(x), LAMBDA k : ~IsMissing(Get(x, k)))
          rs == [i \in 1..Len(ks) |-> normalize(Get(x, ks[i]), TRUE)]
      IN IF AnyThrow(rs) THEN FirstThrow(rs)
         ELSE Obj([i \in 1..Len(ks) |-> <<ks[i], rs[i]>>])
    ELSE Str(x.s)

(***************************************************************************)
(* The encoder (source lines 87-94 and 175-411), over canonical values.    *)
(***************************************************************************)
isPrimitive(x) ==
  x.t = "null" \/ TypeOf(x) = "boolean" \/ TypeOf(x) = "number"
    \/ TypeOf(x) = "string"

encodePrimitive(x, delimiter) ==
  IF x.t = "null" THEN NULL_TOKEN
  ELSE IF TypeOf(x) = "boolean" THEN (IF x.b THEN TRUE_TOKEN ELSE FALSE_TOKEN)
  ELSE IF TypeOf(x) = "number" THEN encodeNumberCanonical(x.n)
  ELSE encodeString(x.s, delimiter)

indentStr(level, indentSize) == Repeat(<<SPACE>>, level * indentSize)

\* chooseDelimiterForValues scanning nothing
chooseDelimiterCommaOnly(values) == COMMA

chooseDelimiterForValues(values) ==
  IF \E i \in 1..Len(values) :
       TypeOf(values[i]) = "string" /\ Includes(values[i].s, COMMA)
  THEN TAB
  ELSE COMMA

\* sameKeySet accepting every row that has the keys of the first row
sameKeySetFirstRowKeysOnly(objs) ==
  IF Len(objs) = 0 THEN [ok |-> TRUE, keys |-> <<>>]
  ELSE
    LET keys0 == ObjectKeys(objs[1])
        set0 == {keys0[j] : j \in 1..Len(keys0)}
        bad(i) ==
          LET ki == ObjectKeys(objs[i])
          IN \E k \in set0 : \A j \in 1..Len(ki) : ki[j] # k
    IN IF \E i \in 2..Len(objs) : bad(i)
       THEN [ok |-> FALSE, keys |-> <<>>]
       ELSE [ok |-> TRUE, keys |-> keys0]

sameKeySet(objs) ==
  IF Len(objs) = 0 THEN [ok |-> TRUE, keys |-> <<>>]
  ELSE
    LET keys0 == ObjectKeys(objs[1])
        set0 == {keys0[j] : j \in 1..Len(keys0)}
        bad(i) ==
          LET ki == ObjectKeys(objs[i])
          IN \/ Len(ki) # Len(keys0)
             \/ \E j \in 1..Len(ki) : ki[j] \notin set0
    IN IF \E i \in 2..Len(objs) : bad(i)
       THEN [ok |-> FALSE, keys |-> <<>>]
       ELSE [ok |-> TRUE, keys |-> keys0]

\* arr.every(isPrimitive) failing on the empty array
allPrimitivesNonEmpty(arr) ==
  Len(arr) > 0 /\ \A i \in 1..Len(arr) : isPrimitive(arr[i])

\* arr.every(isPrimitive), line 213
allPrimitives(arr) == \A i \in 1..Len(arr) : isPrimitive(arr[i])

\* arr.length > 0 && arr.every((x) => isPlainObject(x)), line 222
allObjects(arr) == Len(arr) > 0 /\ \A i \in 1..Len(arr) : isPlainObject(arr[i])

\* objRows.every((o) => keys.every((k) => isPrimitive(o[k]))), lines 231-233
primitiveValuesOnly(objRows, keys) ==
  \A i \in 1..Len(objRows) : \A j \in 1..Len(keys) :
    isPrimitive(Get(objRows[i], keys[j]))

\* block.split("\n")
RECURSIVE SplitLines(_)
SplitLines(block) ==
  IF ~Includes(block, LF) THEN <<block>>
  ELSE LET p == CHOOSE i \in 1..Len(block) :
                  block[i] = LF /\ \A j \in 1..(i - 1) : block[j] # LF
       IN <<SubSeq(block, 1, p - 1)>> \o SplitLines(SubSeq(block, p + 1, Len(block)))

\* reindentBlock leaving the block where it is
reindentBlockNoShift(block, addIndentLevels, indentSize) == block

reindentBlock(block, addIndentLevels, indentSize) ==
  IF block = <<>> THEN <<>>
  ELSE
    LET prefix == indentStr(addIndentLevels, indentSize)
        lns == SplitLines(block)
    IN Join([i \in 1..Len(lns) |->
               IF Len(lns[i]) > 0 THEN prefix \o lns[i] ELSE lns[i]], <<LF>>)

\* `[${N}]`
CountHeader(N) == <<"[">> \o NatToText(N) \o <<"]">>

\* lines 214-219: the inline layout
inlineLayout(arr) ==
  [kind |-> "inline",
   header |-> CountHeader(Len(arr)),
   body |-> Join([i \in 1..Len(arr) |->
                    encodePrimitive(arr[i], chooseDelimiterForValues(arr))],
                 <<chooseDelimiterForValues(arr)>>),
   delimiter |-> chooseDelimiterForValues(arr),
   tabularFields |-> <<>>]

\* lines 235-236: the cells of all rows, row by row in key order
cellValues(objRows, keys) ==
  Concat([i \in 1..Len(objRows) |->
            [j \in 1..Len(keys) |-> Get(objRows[i], keys[j])]])

\* lines 245-247: one row
tabularRow(o, keys, delimiter) ==
  Join([j \in 1..Len(keys) |-> encodePrimitive(Get(o, keys[j]), delimiter)],
       <<delimiter>>)

\* lines 235-257: the tabular layout
tabularLayout(objRows, keys, ctx, indentSize) ==
  [kind |-> "tabular",
   header |-> CountHeader(Len(objRows)) \o <<"{">>
                \o Join([j \in 1..Len(keys) |-> encodeKey(keys[j], COMMA)], <<COMMA>>)
                \o <<"}">>,
   body |-> Join([i \in 1..Len(objRows) |->
                    indentStr(ctx.indent + 1, indentSize)
                      \o tabularRow(objRows[i], keys,
                                    chooseDelimiterForValues(cellValues(objRows, keys)))],
                 <<LF>>),
   delimiter |-> chooseDelimiterForValues(cellValues(objRows, keys)),
   tabularFields |-> keys]

\* lines 262-267: the list layout, given the rendered items
listLayout(arr, lines) ==
  [kind |-> "list",
   header |-> CountHeader(Len(arr)),
   body |-> Join(lines, <<LF>>),
   delimiter |-> COMMA,
   tabularFields |-> <<>>]

\* lines 285-288 and 333-336: an encoded array attached to the token (the
\* indented key, or the dash) that precedes its header
attachArray(token, enc) ==
  IF enc.kind = "inline" THEN token \o enc.header \o <<COLON, SPACE>> \o enc.body
  ELSE IF enc.body # <<>> THEN token \o enc.header \o <<COLON, LF>> \o enc.body
  ELSE token \o enc.header \o <<COLON>>

\* line 296: a nested block under its `key:` line
attachBlock(token, body) ==
  IF body # <<>> THEN token \o <<COLON, LF>> \o body ELSE token \o <<COLON>>

\* lines 354-367: <<firstLine, tailLines>> of a first field holding an array
firstArrayField(token, enc, indentSize) ==
  IF enc.kind = "inline"
  THEN <<token \o enc.header \o <<COLON, SPACE>> \o enc.body, <<>> >>
  ELSE <<token \o enc.header \o <<COLON>>,
         IF enc.body # <<>>
         THEN IF enc.kind = "tabular"
              THEN <<reindentBlock(enc.body, 1, indentSize)>>
              ELSE <<enc.body>>
         ELSE <<>> >>

\* lines 369-375: <<firstLine, tailLines>> of a first field holding an object
firstObjectField(token, nested) ==
  <<token \o <<COLON>>, IF nested # <<>> THEN <<nested>> ELSE <<>> >>

\* lines 385-386: the item from its first line and all its tail lines
joinListItem(firstLine, tailLines) ==
  IF Join(SelectSeq(tailLines, LAMBDA ln : Len(ln) > 0), <<LF>>) # <<>>
  THEN firstLine \o <<LF>>
         \o Join(SelectSeq(tailLines, LAMBDA ln : Len(ln) > 0), <<LF>>)
  ELSE firstLine

\* lines 385-386 on <<firstLine, tailLines of the first field>> and the
\* lines of the other fields
listItemText(first, otherFields) == joinListItem(first[1], first[2] \o otherFields)

RECURSIVE encodeArray(_, _, _)
RECURSIVE encodeObjectField(_, _, _, _)
RECURSIVE encodeObject(_, _, _)
RECURSIVE encodeListItem(_, _, _)

encodeArray(arr, ctx, indentSize) ==
  IF allPrimitives(arr) THEN inlineLayout(arr)
  ELSE IF /\ allObjects(arr)
          /\ sameKeySet(arr).ok
          /\ primitiveValuesOnly(arr, sameKeySet(arr).keys)
  THEN tabularLayout(arr, sameKeySet(arr).keys, ctx, indentSize)
  ELSE listLayout(arr,
                  [i \in 1..Len(arr) |->
                     encodeListItem(arr[i], [indent |-> ctx.indent + 1], indentSize)])

encodeObjectField(key, value, ctx, indentSize) ==
  IF isPrimitive(value)
  THEN indentStr(ctx.indent, indentSize) \o encodeKey(key, COMMA)
         \o <<COLON, SPACE>> \o encodePrimitive(value, COMMA)
  ELSE IF IsArray(value)
  THEN attachArray(indentStr(ctx.indent, indentSize) \o encodeKey(key, COMMA),
                   encodeArray(value.items, ctx, indentSize))
  ELSE IF Len(ObjectKeys(value)) = 0
  THEN indentStr(ctx.indent, indentSize) \o encodeKey(key, COMMA) \o <<COLON>>
  ELSE attachBlock(indentStr(ctx.indent, indentSize) \o encodeKey(key, COMMA),
                   encodeObject(value, [indent |-> ctx.indent + 1], indentSize))

encodeObject(obj, ctx, indentSize) ==
  Join([i \in 1..Len(ObjectKeys(obj)) |->
          encodeObjectField(ObjectKeys(obj)[i], Get(obj, ObjectKeys(obj)[i]),
                            ctx, indentSize)],
       <<LF>>)

encodeListItem(x, ctx, indentSize) ==
  IF isPrimitive(x)
  THEN indentStr(ctx.indent, indentSize) \o <<DASH, SPACE>> \o encodePrimitive(x, COMMA)
  ELSE IF IsArray(x)
  THEN attachArray(indentStr(ctx.indent, indentSize) \o <<DASH, SPACE>>,
                   encodeArray(x.items, [indent |-> ctx.indent], indentSize))
  ELSE IF Len(ObjectKeys(x)) = 0
  THEN indentStr(ctx.indent, indentSize) \o <<DASH>>
  ELSE
    listItemText(
      \* the first key/value pair, on the dash line (lines 344-376)
      IF isPrimitive(Get(x, ObjectKeys(x)[1]))
      THEN <<indentStr(ctx.indent, indentSize) \o <<DASH, SPACE>>
               \o encodeKey(ObjectKeys(x)[1], COMMA) \o <<COLON, SPACE>>
               \o encodePrimitive(Get(x, ObjectKeys(x)[1]), COMMA),
             <<>> >>
      ELSE IF IsArray(Get(x, ObjectKeys(x)[1]))
      THEN firstArrayField(
             indentStr(ctx.indent, indentSize) \o <<DASH, SPACE>>
               \o encodeKey(ObjectKeys(x)[1], COMMA),
             encodeArray(Get(x, ObjectKeys(x)[1]).items, [indent |-> ctx.indent],
                         indentSize),
             indentSize)
      ELSE firstObjectField(
             indentStr(ctx.indent, indentSize) \o <<DASH, SPACE>>
               \o encodeKey(ObjectKeys(x)[1], COMMA),
             encodeObject(Get(x, ObjectKeys(x)[1]), [indent |-> ctx.indent + 1],
                          indentSize)),
      \* the other pairs, one level deeper (lines 378-383)
      [i \in 1..(Len(ObjectKeys(x)) - 1) |->
         encodeObjectField(ObjectKeys(x)[i + 1], Get(x, ObjectKeys(x)[i + 1]),
                           [indent |-> ctx.indent + 1], indentSize)])

\* the characters before which `$` matches under the m flag
LineTerminators == {LF, CR}

\* out.replace(/[ \t]+$/gm, ""): every run of spaces and tabs that ends at a
\* line terminator or at the end of the text is removed
RECURSIVE StripLineEnds(_, _)
StripLineEnds(s, atLineEnd) ==
  IF s = <<>> THEN <<>>
  ELSE LET last == s[Len(s)]
           init == SubSeq(s, 1, Len(s) - 1)
       IN IF atLineEnd /\ last \in {SPACE, TAB} THEN StripLineEnds(init, TRUE)
          ELSE StripLineEnds(init, last \in LineTerminators) \o <<last>>

\* lines 401-404: the top-level array from its encoding
topLevelArray(enc) ==
  IF enc.kind = "inline" THEN enc.header \o <<COLON, SPACE>> \o enc.body
  ELSE enc.header \o <<COLON, LF>> \o enc.body

\* line 410
finish(raw) == StripLineEnds(raw, TRUE) \o <<LF>>

\* encodeToon after normalize (lines 395-410), on the canonical value x
encodeCanonical(x, indentSize) ==
  IF isPrimitive(x) THEN finish(encodePrimitive(x, COMMA))
  ELSE IF IsArray(x)
  THEN finish(topLevelArray(encodeArray(x.items, [indent |-> 0], indentSize)))
  ELSE IF Len(ObjectKeys(x)) = 0 THEN finish(<<>>)
  ELSE finish(encodeObject(x, [indent |-> 0], indentSize))

(***************************************************************************)
(* Specification of encodeNumberCanonical over the model's numbers.        *)
(***************************************************************************)
ModelDigits == {"0", "1", "3", "5"}

Significands ==
  {d \in UNION {[1..k -> ModelDigits] : k \in 1..MaxDigits} :
     d[1] # "0" /\ d[Len(d)] # "0"}

ModelExps == (0 - MinExpBelow)..MaxExp

FiniteNumbers ==
  {Zero, NegZero}
    \cup {Num(neg, d, e) : neg \in BOOLEAN, d \in Significands, e \in ModelExps}

HostNumbers == FiniteNumbers \cup {NaN, Infinity(FALSE), Infinity(TRUE)}

NoOpts == [none |-> TRUE]
NoValue == [t |-> "none"]

InitNumber ==
  /\ pc = "call"
  /\ input \in HostNumbers
  /\ opts = NoOpts
  /\ v = NoValue
  /\ out = <<>>

EncodeNumber ==
  /\ pc = "call"
  /\ out' = encodeNumberCanonical(input)
  /\ pc' = "returned"
  /\ UNCHANGED <<input, opts, v>>

NextNumber == EncodeNumber

SpecNumber == InitNumber /\ [][NextNumber]_vars

(***************************************************************************)
(* The value a decimal text denotes, as [neg, digits, exp] in the normal   *)
(* form of Num (zero: no digits, exp 0, neg FALSE).  Accepts an optional   *)
(* exponent part, so that it reads native renderings too.                  *)
(***************************************************************************)
TextValue(s) ==
  LET es == {i \in 1..Len(s) : s[i] \in {"e", "E"}}
      p == IF es = {} THEN Len(s) + 1 ELSE CHOOSE i \in es : TRUE
      mant == SubSeq(s, 1, p - 1)
      ex == IF es = {} THEN 0 ELSE parseInt(SubSeq(s, p + 1, Len(s)))
      neg == mant # <<>> /\ mant[1] = DASH
      m2 == IF neg THEN Tail(mant) ELSE mant
      ds == {i \in 1..Len(m2) : m2[i] = DOT}
      ip == IF ds = {} THEN m2 ELSE SubSeq(m2, 1, (CHOOSE i \in ds : TRUE) - 1)
      fp == IF ds = {} THEN <<>> ELSE SubSeq(m2, Len(ip) + 2, Len(m2))
      all == ip \o fp
      lead == StripLeadingZeros(all)
      sig == StripTrailingZeroRun(lead, 0)
  IN IF sig = <<>> THEN [neg |-> FALSE, digits |-> <<>>, exp |-> 0]
     ELSE [neg |-> neg, digits |-> sig,
           exp |-> Len(ip) - (Len(all) - Len(lead)) + ex]

\* -?\d+(\.\d+)? : a plain decimal numeral
IsPlainDecimal(s) ==
  LET m2 == IF s # <<>> /\ s[1] = DASH THEN Tail(s) ELSE s
      ds == {i \in 1..Len(m2) : m2[i] = DOT}
  IN /\ m2 # <<>>
     /\ Cardinality(ds) <= 1
     /\ \A i \in 1..Len(m2) : m2[i] \in DigitChars \cup {DOT}
     /\ m2[1] # DOT
     /\ m2[Len(m2)] # DOT

\* the integer part of a plain decimal numeral (sign removed)
IntegerPart(s) ==
  LET m2 == IF s # <<>> /\ s[1] = DASH THEN Tail(s) ELSE s
      ds == {i \in 1..Len(m2) : m2[i] = DOT}
  IN IF ds = {} THEN m2 ELSE SubSeq(m2, 1, (CHOOSE i \in ds : TRUE) - 1)

CanonicalDecimalOf(n, text) ==
  /\ IsPlainDecimal(text)
  /\ ~Includes(text, "e") /\ ~Includes(text, "E")
  /\ (Len(IntegerPart(text)) > 1 => IntegerPart(text)[1] # "0")
  /\ (Includes(text, DOT) => text[Len(text)] # "0")
  /\ text[Len(text)] # DOT
  /\ (text[1] = DASH <=> (n.neg /\ n.digits # <<>>))
  /\ (n.digits = <<>> => text = <<"0">>)
  /\ TextValue(text) = TextValue(NumberToString(n))
  /\ TextValue(text) =
       [neg |-> n.neg /\ n.digits # <<>>, digits |-> n.digits, exp |-> n.exp]

\* C9: for every finite number n, encodeNumberCanonical(n) is a plain decimal
\* numeral denoting the same value as the native rendering String(n): no
\* exponent marker, no redundant leading zeros, no trailing zeros after the
\* decimal point, no trailing decimal point, the sign kept, and "0" for zero
\* and negative zero; an exponential native rendering has its decimal point
\* shifted by the exponent and padded with zeros.
C9_CanonicalNumber ==
  (pc = "returned" /\ NumberIsFinite(input)) => CanonicalDecimalOf(input, out)

\* 1.5e-7, natively rendered "1.5e-7", has been encoded as 0.00000015
C9_Witness ==
  /\ pc = "returned"
  /\ input = Num(FALSE, <<"1", "5">>, -6)
  /\ Includes(NumberToString(input), "e")
  /\ out = <<"0", DOT, "0", "0", "0", "0", "0", "0", "1", "5">>


(***************************************************************************)
(* Specification of encodeString over the model's strings.                 *)
(***************************************************************************)
StringAlphabet ==
  {"a", "0", "1", DASH, PLUS, DOT, "e", COMMA, TAB, COLON, QUOTE, BACKSLASH,
   SPACE, LF}

StringWords ==
  {TRUE_TOKEN, FALSE_TOKEN, NULL_TOKEN,
   <<"t", "r", "u", "e", "a">>, <<"n", "u", "l">>,
   <<"1", "e", PLUS, "1">>, <<DASH, "1", DOT, "0", "E", DASH, "1", "0">>,
   <<"1", DOT, "0", "e">>, <<"0", "0", DOT, "1">>, <<CR>>, <<"a", FF, "a">>}

ModelStrings ==
  UNION {[1..k -> StringAlphabet] : k \in 0..MaxStrLen} \cup StringWords

Delimiters == {COMMA, TAB}

InitString ==
  /\ pc = "call"
  /\ input \in ModelStrings
  /\ opts \in [delimiter : Delimiters]
  /\ v = NoValue
  /\ out = <<>>

EncodeString ==
  /\ pc = "call"
  /\ out' = encodeString(input, opts.delimiter)
  /\ pc' = "returned"
  /\ UNCHANGED <<input, opts, v>>

NextString == EncodeString

SpecString == InitString /\ [][NextString]_vars

\* the integer part, fraction and exponent of a numeric literal, stated on
\* the split points of s: s[1..g] the sign, s[g+1..a] the integer digits,
\* s[a+1..b] the fraction and s[b+1..Len(s)] the exponent
NumericLiteralSplit(s, signs, strictInteger) ==
  \E g \in {0, 1}, a \in 1..Len(s), b \in 1..Len(s) :
    /\ g < a /\ a <= b
    /\ (g = 1 => s[1] \in signs)
    /\ AllDigits(SubSeq(s, g + 1, a))
    /\ (strictInteger => (a - g = 1 \/ s[g + 1] # "0"))
    /\ (b > a => (s[a + 1] = DOT /\ b >= a + 2 /\ AllDigits(SubSeq(s, a + 2, b))))
    /\ (b < Len(s) =>
          /\ s[b + 1] \in {"e", "E"}
          /\ \E h \in {b + 1, b + 2} :
               /\ h < Len(s)
               /\ (h = b + 2 => s[b + 2] \in {PLUS, DASH})
               /\ AllDigits(SubSeq(s, h + 1, Len(s))))

\* optional sign, digits, optional fractional part, optional exponent
IsNumericLiteralLoose(s) == NumericLiteralSplit(s, {PLUS, DASH}, FALSE)

\* optional minus, "0" or digits without a leading zero, optional
\* fractional part, optional exponent
IsNumericLiteralStrict(s) == NumericLiteralSplit(s, {DASH}, TRUE)

\* the other conditions of the claim under which a string is quoted
QuotedForOtherReasons(s, d) ==
  \/ s = <<>>
  \/ (s # <<>> /\ (s[1] \in TrimChars \/ s[Len(s)] \in TrimChars))
  \/ s \in {TRUE_TOKEN, FALSE_TOKEN, NULL_TOKEN}
  \/ (s # <<>> /\ s[1] = DASH)
  \/ \E i \in 1..Len(s) :
       s[i] \in ControlChars \cup {QUOTE, BACKSLASH, COLON, d, COMMA, TAB}

Quoted(s) == <<QUOTE>> \o escapeQuoted(s) \o <<QUOTE>>

\* C8 as stated: encodeString(s, d) returns s unless s is empty, has leading
\* or trailing whitespace, is true/false/null, matches the numeric-literal
\* pattern "optional sign, digits, optional fractional part, optional
\* exponent", starts with "-", or contains a control character, a double
\* quote, a backslash, a colon, the active delimiter, a comma or a tab; then
\* it returns s quoted and escaped.
C8_AsStated ==
  pc = "returned" =>
    out = IF QuotedForOtherReasons(input, opts.delimiter) \/ IsNumericLiteralLoose(input)
          THEN Quoted(input) ELSE input

\* C8 amended: the same, with the numeric-literal pattern being an optional
\* minus sign, an integer part that is "0" or starts with a non-zero digit,
\* an optional fractional part and an optional exponent; digit strings with
\* a leading "+" or a redundant leading zero are returned unquoted.
C8_QuotingRule ==
  pc = "returned" =>
    out = IF QuotedForOtherReasons(input, opts.delimiter) \/ IsNumericLiteralStrict(input)
          THEN Quoted(input) ELSE input

\* the numeric literal "1e1", quoted for no other reason, has been returned
\* in double quotes
C8_Witness ==
  /\ pc = "returned"
  /\ input = <<"1", "e", "1">>
  /\ IsNumericLiteralStrict(input)
  /\ ~QuotedForOtherReasons(input, opts.delimiter)
  /\ out = <<QUOTE, "1", "e", "1", QUOTE>>

(***************************************************************************)
(* The inputs of the model: host values up to MaxItems elements per array  *)
(* and MaxFields fields per object.                                        *)
(***************************************************************************)
KEY_K == <<"k">>
KEY_M == <<"m">>
KEY_7 == <<"7">>

One == Number(Num(FALSE, <<"1">>, 1))
StrX == Str(<<"x">>)
ISO_TEXT ==
  <<"2", "0", "2", "0", DASH, "0", "1", DASH, "0", "1", "T", "0", "0", COLON,
    "0", "0", COLON, "0", "0", DOT, "0", "0", "0", "Z">>
OBJECT_TEXT ==
  <<"[", "o", "b", "j", "e", "c", "t", SPACE, "O", "b", "j", "e", "c", "t", "]">>

HostLeaves ==
  {Undefined, Null, Bool(TRUE), One, Number(NaN), Number(NegZero), StrX,
   BigInt(<<"9">>), Fn, Sym, Date(TRUE, ISO_TEXT), Date(FALSE, <<>>),
   Instance(OBJECT_TEXT)}

SeqsUpTo(S, n) == UNION {[1..k -> S] : k \in 0..n}

KeySeqs(K, n) ==
  {ks \in SeqsUpTo(K, n) : \A i, j \in 1..Len(ks) : i # j => ks[i] # ks[j]}

ArrsOver(S, n) == {Arr(items) : items \in SeqsUpTo(S, n)}

ObjsOver(K, S, n) ==
  UNION {{Obj([i \in 1..Len(ks) |-> <<ks[i], vs[i]>>]) : vs \in [1..Len(ks) -> S]} :
           ks \in KeySeqs(K, n)}

Obj1(k, x) == Obj(<< <<k, x>> >>)
Obj2(k1, x1, k2, x2) == Obj(<< <<k1, x1>>, <<k2, x2>> >>)

\* arrays and objects of leaves of every host type
ShallowInputs ==
  HostLeaves \cup ArrsOver(HostLeaves, MaxItems)
    \cup ObjsOver({KEY_K, KEY_M}, HostLeaves, MaxFields)

\* rows of candidate tables: objects of primitives and of empty arrays
Rows == ObjsOver({KEY_K, KEY_M}, {One, Arr(<<>>)}, MaxFields)

TableInputs == ArrsOver(Rows \cup {One}, MaxItems)

FieldValues ==
  {One, Undefined, Obj(<<>>), Obj2(KEY_M, One, KEY_7, One), Arr(<<>>),
   Arr(<<Undefined>>), Arr(<<Obj1(KEY_K, One)>>), Arr(<<Obj(<<>>)>>),
   Arr(<<Arr(<<>>)>>)}

\* objects with nested objects, arrays and index-like keys as fields
ObjectInputs == ObjsOver({KEY_K, KEY_M, KEY_7}, FieldValues, MaxFields)

ListItems ==
  {One, Arr(<<One>>), Obj(<<>>), Obj2(KEY_M, One, KEY_7, One),
   Obj2(KEY_K, Arr(<<Obj1(KEY_M, One)>>), KEY_M, One),
   Obj2(KEY_K, Obj1(KEY_M, One), KEY_M, One),
   Obj1(KEY_K, Arr(<<>>)),
   Obj2(KEY_K, Arr(<<Arr(<<>>)>>), KEY_M, Obj(<<>>))}

\* arrays in list layout
ListInputs == ArrsOver(ListItems, MaxItems)

ModelInputs == ShallowInputs \cup TableInputs \cup ObjectInputs \cup ListInputs

IndentSizes == {0, 2}

(***************************************************************************)
(* Specification of encodeToon: normalize, then encode.                    *)
(***************************************************************************)
Init ==
  /\ pc = "call"
  /\ input \in ModelInputs
  /\ opts \in [sanitizeJs : BOOLEAN, indentSize : IndentSizes]
  /\ v = NoValue
  /\ out = <<>>

\* line 393: const v = normalize(input, sanitizeJs), or its exception
Normalize ==
  /\ pc = "call"
  /\ v' = normalize(input, opts.sanitizeJs)
  /\ pc' = IF v'.t = "throw" THEN "thrown" ELSE "normalized"
  /\ UNCHANGED <<input, opts, out>>

\* lines 395-410
Encode ==
  /\ pc = "normalized"
  /\ out' = encodeCanonical(v, opts.indentSize)
  /\ pc' = "returned"
  /\ UNCHANGED <<input, opts, v>>

Next == Normalize \/ Encode

Spec == Init /\ [][Next]_vars

(***************************************************************************)
(* Specification of normalize applied twice.                               *)
(***************************************************************************)
\* normalize(v, sanitizeJs) on the result of the first call
NormalizeAgain ==
  /\ pc = "normalized"
  /\ out' = normalize(v, opts.sanitizeJs)
  /\ pc' = "renormalized"
  /\ UNCHANGED <<input, opts, v>>

NextNormalize == Normalize \/ NormalizeAgain

SpecNormalize == Init /\ [][NextNormalize]_vars

(***************************************************************************)
(* Claims about normalize and encodeToon.                                  *)
(***************************************************************************)
\* a non-finite number or a value outside null, boolean, number, string,
\* array, plain object, anywhere in the tree
RECURSIVE ContainsNonJson(_)
ContainsNonJson(x) ==
  IF x.t = "number" THEN ~NumberIsFinite(x.n)
  ELSE IF x.t = "array" THEN \E i \in 1..Len(x.items) : ContainsNonJson(x.items[i])
  ELSE IF x.t = "object"
  THEN \E i \in 1..Len(x.fields) : ContainsNonJson(x.fields[i][2])
  ELSE x.t \notin {"null", "boolean", "string"}

StrictErrors ==
  {"Error: Non-finite number in strict mode", "Error: Non-JSON type in strict mode"}

\* C1: for every input tree that contains a non-finite number or a value of a
\* non-JSON type, encodeToon in strict mode raises the strict-mode error and
\* returns no output; for the same input with sanitize on it returns a string.
C1_StrictRejectsSanitizeAccepts ==
  (ContainsNonJson(input) /\ pc # "call") =>
    IF opts.sanitizeJs
    THEN pc \in {"normalized", "returned"}
    ELSE pc = "thrown" /\ v.t = "throw" /\ v.err \in StrictErrors /\ out = <<>>

\* C2: in sanitize mode normalize, and therefore encodeToon, raises no error,
\* whatever the input tree contains (dates valid or not, big integers,
\* functions, symbols, undefined, non-finite numbers, non-plain objects).
C2_SanitizeNeverFails ==
  opts.sanitizeJs => pc # "thrown"

\* the canonical value c has the shape sanitize mode gives the host value h:
\* a sequence keeps its length with undefined elements turned into null, a
\* mapping keeps exactly the keys whose value is not undefined
RECURSIVE SanitizedShape(_, _)
SanitizedShape(h, c) ==
  IF h.t = "array" THEN
    /\ c.t = "array"
    /\ Len(c.items) = Len(h.items)
    /\ \A i \in 1..Len(h.items) :
         IF h.items[i].t = "undefined" THEN c.items[i] = Null
         ELSE SanitizedShape(h.items[i], c.items[i])
  ELSE IF h.t = "object" THEN
    /\ c.t = "object"
    /\ {c.fields[i][1] : i \in 1..Len(c.fields)} =
         {h.fields[i][1] : i \in {j \in 1..Len(h.fields) : h.fields[j][2].t # "undefined"}}
    /\ \A i \in 1..Len(c.fields) :
         SanitizedShape(Get(h, c.fields[i][1]), c.fields[i][2])
  ELSE TRUE

\* {k: undefined, m: [undefined]}
MissingExample == Obj2(KEY_K, Undefined, KEY_M, Arr(<<Undefined>>))
MissingExampleText == <<"m", "[", "1", "]", COLON, SPACE, "n", "u", "l", "l", LF>>

\* C3: in sanitize mode an undefined value is omitted when it is a mapping
\* field value and becomes null when it is a sequence element: every
\* normalized sequence has the length of its input, every normalized mapping
\* exactly the input's keys whose values are not undefined, and
\* {k: undefined, m: [undefined]} encodes as the one line `m[1]: null`.
C3_MissingValues ==
  (opts.sanitizeJs /\ pc \in {"normalized", "returned"}) =>
    /\ SanitizedShape(input, v)
    /\ (pc = "returned" /\ input = MissingExample => out = MissingExampleText)

C3_Witness ==
  /\ opts.sanitizeJs
  /\ pc = "returned"
  /\ input = MissingExample
  /\ v = Obj1(KEY_M, Arr(<<Null>>))
  /\ out = MissingExampleText

\* C4: sanitize-mode normalization is idempotent: normalizing the result of
\* normalize(v, sanitize) again in sanitize mode returns it unchanged.
C4_Idempotent ==
  (opts.sanitizeJs /\ pc = "renormalized") => out = v

\* [undefined, NaN] was changed to [null, null] by the first call and left
\* alone by the second
C4_Witness ==
  /\ opts.sanitizeJs
  /\ pc = "renormalized"
  /\ input = Arr(<<Undefined, Number(NaN)>>)
  /\ v = Arr(<<Null, Null>>)
  /\ out = v

\* C5: for every input on which encodeToon returns, and every indentSize, the
\* returned text ends with a single trailing newline and no line of it ends
\* with a space or a tab.
C5_SingleTrailingNewline ==
  pc = "returned" =>
    /\ out # <<>> /\ out[Len(out)] = LF
    /\ (Len(out) >= 2 => out[Len(out) - 1] # LF)
    /\ \A i \in 1..Len(out) :
         out[i] \in {SPACE, TAB} => (i < Len(out) /\ out[i + 1] # LF)

\* the characters of the model's keys, none of which occurs in a value or a
\* count of the model's inputs
KeyChars == {"k", "m", "7"}

\* the keys in the order they occur in a text
KeyTrace(text) == SelectSeq(text, LAMBDA ch : ch \in KeyChars)

\* the retained keys of a host value, every mapping's in insertion order,
\* outer before inner
RECURSIVE InsertionOrderTrace(_, _)
InsertionOrderTrace(x, sanitizeJs) ==
  IF x.t = "array"
  THEN Concat([i \in 1..Len(x.items) |-> InsertionOrderTrace(x.items[i], sanitizeJs)])
  ELSE IF x.t = "object"
  THEN Concat([i \in 1..Len(x.fields) |->
                 IF sanitizeJs /\ x.fields[i][2].t = "undefined" THEN <<>>
                 ELSE x.fields[i][1]
                        \o InsertionOrderTrace(x.fields[i][2], sanitizeJs)])
  ELSE <<>>

\* some array of the canonical value is laid out as a table
RECURSIVE HasTable(_)
HasTable(x) ==
  IF x.t = "array"
  THEN \/ encodeArray(x.items, [indent |-> 0], 0).kind = "tabular"
       \/ \E i \in 1..Len(x.items) : HasTable(x.items[i])
  ELSE IF x.t = "object"
  THEN \E i \in 1..Len(x.fields) : HasTable(x.fields[i][2])
  ELSE FALSE

\* C10: for every input mapping at any nesting depth (top level, nested field
\* value or list item), in strict and in sanitize mode, the field lines of
\* the mapping appear in the output in the insertion order of the input
\* mapping's retained keys.
C10_InsertionOrder ==
  (pc = "returned" /\ ~HasTable(v)) =>
    KeyTrace(out) = InsertionOrderTrace(input, opts.sanitizeJs)

(***************************************************************************)
(* Specification of encodeArray over canonical arrays.                     *)
(***************************************************************************)
KEY_ID == <<"i", "d">>
KEY_NAME == <<"n", "a", "m", "e">>
KEY_EXTRA == <<"e", "x", "t", "r", "a">>
Two == Number(Num(FALSE, <<"2">>, 1))

\* [{id:1},{id:1,extra:2}]
DivergentRows == <<Obj1(KEY_ID, One), Obj2(KEY_ID, One, KEY_EXTRA, Two)>>

\* [{id:1,name:"Ada"},{id:2,name:"Lin"}]
AdaLinRows ==
  <<Obj2(KEY_ID, One, KEY_NAME, Str(<<"A", "d", "a">>)),
    Obj2(KEY_ID, Two, KEY_NAME, Str(<<"L", "i", "n">>))>>

ArrayElements == Rows \cup {One, StrX, Arr(<<One>>)}

ArrayInputs == SeqsUpTo(ArrayElements, MaxItems) \cup {DivergentRows, AdaLinRows}

IndentLevels == {0, 1}

InitArray ==
  /\ pc = "call"
  /\ input \in ArrayInputs
  /\ opts \in [indent : IndentLevels, indentSize : IndentSizes]
  /\ v = NoValue
  /\ out = <<>>

EncodeArray ==
  /\ pc = "call"
  /\ out' = encodeArray(input, [indent |-> opts.indent], opts.indentSize)
  /\ pc' = "returned"
  /\ UNCHANGED <<input, opts, v>>

NextArray == EncodeArray

SpecArray == InitArray /\ [][NextArray]_vars

KeySetOf(o) == {o.fields[i][1] : i \in 1..Len(o.fields)}

\* the layout the selection rule gives an array
LayoutByRule(arr) ==
  IF \A i \in 1..Len(arr) : arr[i].t \in {"null", "boolean", "number", "string"}
  THEN "inline"
  ELSE IF /\ \A i \in 1..Len(arr) : arr[i].t = "object"
          /\ \A i \in 1..Len(arr) : KeySetOf(arr[i]) = KeySetOf(arr[1])
          /\ \A i \in 1..Len(arr) : \A j \in 1..Len(arr[i].fields) :
               arr[i].fields[j][2].t \in {"null", "boolean", "number", "string"}
  THEN "tabular"
  ELSE "list"

ADA_LIN_HEADER ==
  <<"[", "2", "]", "{", "i", "d", COMMA, "n", "a", "m", "e", "}">>

\* C6: for every non-empty sequence of canonical values encodeArray selects
\* inline if and only if every element is a primitive; otherwise tabular if
\* and only if every element is a mapping, all mappings have the same key set
\* whatever their insertion order, and every value under every key is a
\* primitive; otherwise list.  [{id:1},{id:1,extra:2}] is list and
\* [{id:1,name:"Ada"},{id:2,name:"Lin"}] is tabular with header [2]{id,name}.
C6_LayoutSelection ==
  (pc = "returned" /\ Len(input) > 0) =>
    /\ out.kind = LayoutByRule(input)
    /\ (input = DivergentRows => out.kind = "list")
    /\ (input = AdaLinRows => out.kind = "tabular" /\ out.header = ADA_LIN_HEADER)

\* two rows with the same keys inserted in different orders became a table
C6_Witness ==
  /\ pc = "returned"
  /\ input = <<Obj2(KEY_K, One, KEY_M, One), Obj2(KEY_M, One, KEY_K, One)>>
  /\ out.kind = "tabular"
  /\ out.tabularFields = <<KEY_K, KEY_M>>

\* C7 as stated: encodeArray on an array of zero elements returns a result of
\* kind list, with header [0] and an empty body.
C7_EmptyIsList ==
  (pc = "returned" /\ Len(input) = 0) =>
    out.kind = "list" /\ out.header = <<"[", "0", "]">> /\ out.body = <<>>

\* C7 amended: encodeArray on an array of zero elements returns a result of
\* kind inline (every one of its zero elements is a primitive), with header
\* [0] and an empty body.
C7_EmptyIsInline ==
  (pc = "returned" /\ Len(input) = 0) =>
    out.kind = "inline" /\ out.header = <<"[", "0", "]">> /\ out.body = <<>>

C7_Witness ==
  /\ pc = "returned"
  /\ Len(input) = 0
  /\ out.kind = "inline"
  /\ out.header = <<"[", "0", "]">>

(***************************************************************************)
(* Specification of encodeArray over arrays of primitives and of rows      *)
(* whose strings and field names hold commas and tabs.                     *)
(***************************************************************************)
KEY_COMMA == <<"a", COMMA, "b">>
StrComma == Str(<<"a", COMMA, "b">>)
StrTab == Str(<<TAB>>)

DelimiterPrimitives == {One, Null, Bool(TRUE), Str(<<"a">>), StrComma, StrTab}

DelimiterCells == {One, StrComma, StrTab}

DelimiterRows == ObjsOver({KEY_K, KEY_COMMA}, DelimiterCells, MaxFields)

DelimiterInputs ==
  SeqsUpTo(DelimiterPrimitives, MaxItems) \cup SeqsUpTo(DelimiterRows, MaxItems)

InitDelimiter ==
  /\ pc = "call"
  /\ input \in DelimiterInputs
  /\ opts \in [indent : IndentLevels, indentSize : IndentSizes]
  /\ v = NoValue
  /\ out = <<>>

EncodeDelimited ==
  /\ pc = "call"
  /\ out' = encodeArray(input, [indent |-> opts.indent], opts.indentSize)
  /\ pc' = "returned"
  /\ UNCHANGED <<input, opts, v>>

NextDelimiter == EncodeDelimited

SpecDelimiter == InitDelimiter /\ [][NextDelimiter]_vars

\* the pieces of text between the occurrences of d that are outside double
\* quotes; inside quotes a backslash takes the next character with it
RECURSIVE SplitUnquoted(_, _, _, _)
SplitUnquoted(text, d, inQuote, escaped) ==
  IF text = <<>> THEN << <<>> >>
  ELSE IF ~inQuote /\ Head(text) = d
  THEN << <<>> >> \o SplitUnquoted(Tail(text), d, FALSE, FALSE)
  ELSE LET rest == SplitUnquoted(
                     Tail(text), d,
                     IF escaped THEN inQuote
                     ELSE IF Head(text) = QUOTE THEN ~inQuote ELSE inQuote,
                     inQuote /\ ~escaped /\ Head(text) = BACKSLASH)
       IN << <<Head(text)>> \o Head(rest) >> \o Tail(rest)

\* the tokens a joined text carries: none for the empty text
TokensOf(text, d) ==
  IF text = <<>> THEN <<>> ELSE SplitUnquoted(text, d, FALSE, FALSE)

\* some string among the values holds a literal comma
SomeStringHasComma(values) ==
  \E i \in 1..Len(values) :
    values[i].t = "string" /\ \E p \in 1..Len(values[i].s) : values[i].s[p] = COMMA

\* the values of the fields of a row, in the order of its fields
FieldValuesOf(o) == [j \in 1..Len(o.fields) |-> o.fields[j][2]]

DelimiterByRule(values) == IF SomeStringHasComma(values) THEN TAB ELSE COMMA

\* the text of a row after its indentation
RowText(body, i, ctx, indentSize) ==
  SliceFrom(SplitLines(body)[i], (ctx.indent + 1) * indentSize)

\* the field names between the braces of a tabular header
HeaderFields(header) ==
  LET open == CHOOSE p \in 1..Len(header) :
                header[p] = "{" /\ \A q \in 1..(p - 1) : header[q] # "{"
  IN SubSeq(header, open + 1, Len(header) - 1)

\* C11: for an inline array the delimiter is tab if and only if some string
\* element holds a literal comma, otherwise comma; for a tabular array it is
\* tab if and only if some string cell of any row holds a literal comma,
\* otherwise comma.  Only string values are scanned, never numbers, booleans
\* or field names.  The one delimiter joins all elements of the array and all
\* cells of every row, and the field names of the tabular header are joined
\* and quoted with comma whatever the row delimiter is.
C11_Delimiter ==
  pc = "returned" =>
    /\ out.kind = "inline" =>
         /\ out.delimiter = DelimiterByRule(input)
         /\ TokensOf(out.body, out.delimiter)
              = [i \in 1..Len(input) |-> encodePrimitive(input[i], out.delimiter)]
    /\ out.kind = "tabular" =>
         /\ out.delimiter
              = (IF \E i \in 1..Len(input) : SomeStringHasComma(FieldValuesOf(input[i]))
                 THEN TAB ELSE COMMA)
         /\ Len(SplitLines(out.body)) = Len(input)
         /\ \A i \in 1..Len(input) :
              TokensOf(RowText(out.body, i, opts, opts.indentSize), out.delimiter)
                = [j \in 1..Len(out.tabularFields) |->
                     encodePrimitive(Get(input[i], out.tabularFields[j]),
                                     out.delimiter)]
         /\ TokensOf(HeaderFields(out.header), COMMA)
              = [j \in 1..Len(out.tabularFields) |->
                   encodeKey(out.tabularFields[j], COMMA)]

\* a table whose field name holds a comma and whose cells hold none keeps the
\* comma, and a table with a comma in one cell joins every row with tabs
C11_Witness ==
  /\ pc = "returned"
  /\ out.kind = "tabular"
  /\ out.delimiter = TAB
  /\ Len(input) = 2
  /\ out.tabularFields = <<KEY_COMMA, KEY_K>>
  /\ input[1] = Obj2(KEY_COMMA, One, KEY_K, One)
  /\ input[2] = Obj2(KEY_K, StrComma, KEY_COMMA, StrTab)

(***************************************************************************)
(* Specification of encodeListItem over non-empty canonical mappings.      *)
(***************************************************************************)
TableOneRow == Arr(<<Obj1(KEY_K, One)>>)
TableTwoRows == Arr(<<Obj2(KEY_K, One, KEY_M, StrX), Obj2(KEY_M, StrX, KEY_K, One)>>)
TableNoCells == Arr(<<Obj(<<>>), Obj(<<>>)>>)

\* the values of the fields of an item: primitives, arrays of every layout,
\* empty and nested mappings
ItemFieldValues ==
  {One, StrX, Arr(<<>>), Arr(<<One, StrX>>), TableOneRow, TableTwoRows,
   TableNoCells, Arr(<<One, Arr(<<>>)>>), Arr(<<Obj1(KEY_K, Arr(<<One>>))>>),
   Obj(<<>>), Obj1(KEY_M, One), Obj1(KEY_M, Obj1(KEY_K, One))}

\* canonical mappings, as normalize builds them: an integer-index key, if any,
\* is the first field
ItemInputs ==
  (ObjsOver({KEY_K, KEY_M}, ItemFieldValues, MaxFields) \ {Obj(<<>>)})
    \cup {Obj2(KEY_7, x, KEY_K, One) : x \in ItemFieldValues}

InitListItem ==
  /\ pc = "call"
  /\ input \in ItemInputs
  /\ opts \in [indent : IndentLevels, indentSize : IndentSizes]
  /\ v = NoValue
  /\ out = <<>>

EncodeListItem ==
  /\ pc = "call"
  /\ out' = encodeListItem(input, [indent |-> opts.indent], opts.indentSize)
  /\ pc' = "returned"
  /\ UNCHANGED <<input, opts, v>>

NextListItem == EncodeListItem

SpecListItem == InitListItem /\ [][NextListItem]_vars

\* the value is an array that encodeArray lays out as a table
IsTable(x) == x.t = "array" /\ Len(x.items) > 0 /\ LayoutByRule(x.items) = "tabular"

\* the lines an object field of level L takes, when its key follows a dash
\* at level L: the dash goes between the indentation and the key, and the
\* rows of a table move one level deeper
FirstFieldLines(key, value, L, indentSize) ==
  LET F == SplitLines(encodeObjectField(key, value, [indent |-> L], indentSize))
  IN [i \in 1..Len(F) |->
        IF i = 1
        THEN Repeat(<<SPACE>>, L * indentSize) \o <<DASH, SPACE>>
               \o SliceFrom(F[1], L * indentSize)
        ELSE IF IsTable(value) THEN Repeat(<<SPACE>>, indentSize) \o F[i]
        ELSE F[i]]

\* the ordinary object-field lines of the fields after the first, at level L
OtherFieldLines(x, L, indentSize) ==
  Concat([i \in 1..(Len(x.fields) - 1) |->
            SplitLines(encodeObjectField(x.fields[i + 1][1], x.fields[i + 1][2],
                                         [indent |-> L], indentSize))])

\* C12: for every non-empty mapping rendered as a list item whose dash is at
\* indent level L, the first key/value pair is on the `- ` line at level L,
\* rendered by the per-value-type rules of an object field; every later pair
\* is an ordinary object-field line at level L+1; and when the value of the
\* first field is a tabular array its rows are at level L+2.
C12_ListItemLayout ==
  pc = "returned" =>
    /\ SplitLines(out)
         = FirstFieldLines(input.fields[1][1], input.fields[1][2],
                           opts.indent, opts.indentSize)
             \o OtherFieldLines(input, opts.indent + 1, opts.indentSize)
    /\ IsTable(input.fields[1][2]) =>
         \A r \in 1..Len(input.fields[1][2].items) :
           /\ SliceTo(SplitLines(out)[r + 1], (opts.indent + 2) * opts.indentSize)
                = Repeat(<<SPACE>>, (opts.indent + 2) * opts.indentSize)
           /\ TokensOf(SliceFrom(SplitLines(out)[r + 1],
                                 (opts.indent + 2) * opts.indentSize), COMMA)
                = [j \in 1..Len(ObjectKeys(input.fields[1][2].items[1])) |->
                     encodePrimitive(
                       Get(input.fields[1][2].items[r],
                           ObjectKeys(input.fields[1][2].items[1])[j]),
                       COMMA)]

\* the item {k: [{k:1}], m: 1} with its dash at level 1 and two spaces a level
C12_Witness ==
  /\ pc = "returned"
  /\ input = Obj2(KEY_K, TableOneRow, KEY_M, One)
  /\ opts = [indent |-> 1, indentSize |-> 2]
  /\ SplitLines(out)
       = << <<SPACE, SPACE, DASH, SPACE, "k", "[", "1", "]", "{", "k", "}", COLON>>,
            <<SPACE, SPACE, SPACE, SPACE, SPACE, SPACE, "1">>,
            <<SPACE, SPACE, SPACE, SPACE, "m", COLON, SPACE, "1">> >>

(***************************************************************************)
(* Specification of encodeToon on two canonical trees with one indentSize. *)
(***************************************************************************)
KEY_A == <<"a">>
KEY_X == <<"x">>
KEY_B == <<"b">>
KEY_A1 == <<"a", "[", "1", "]">>

\* [{a:{x:1}, b:2}] and [{a:{x:1, b:2}}]
NestedThenField == Arr(<<Obj2(KEY_A, Obj1(KEY_X, One), KEY_B, Two)>>)
NestedWithField == Arr(<<Obj1(KEY_A, Obj2(KEY_X, One, KEY_B, Two))>>)

\* {"a[1]": 1} and {a: [1]}
BracketKey == Obj1(KEY_A1, One)
ArrayField == Obj1(KEY_A, Arr(<<One>>))

PairLeaves == {One, Str(<<"1">>), Null}

\* canonical trees: normalize returns each of them as it is
PairTrees ==
  PairLeaves
    \cup ArrsOver(PairLeaves \cup {Obj1(KEY_A, One)}, MaxItems)
    \cup ObjsOver({KEY_A, KEY_B}, PairLeaves \cup {Arr(<<>>), Obj(<<>>)}, MaxFields)
    \cup {NestedThenField, NestedWithField, BracketKey, ArrayField}

PairIndentSizes == {1, 2}

InitPair ==
  /\ pc = "call"
  /\ input \in PairTrees \X PairTrees
  /\ opts \in [sanitizeJs : {FALSE}, indentSize : PairIndentSizes]
  /\ v = NoValue
  /\ out = <<>>

NormalizePair ==
  /\ pc = "call"
  /\ v' = <<normalize(input[1], opts.sanitizeJs), normalize(input[2], opts.sanitizeJs)>>
  /\ pc' = "normalized"
  /\ UNCHANGED <<input, opts, out>>

EncodePair ==
  /\ pc = "normalized"
  /\ out' = <<encodeCanonical(v[1], opts.indentSize),
              encodeCanonical(v[2], opts.indentSize)>>
  /\ pc' = "returned"
  /\ UNCHANGED <<input, opts, v>>

NextPair == NormalizePair \/ EncodePair

SpecPair == InitPair /\ [][NextPair]_vars

\* C13: the encoding is unambiguous: for a fixed indentSize >= 1, two
\* different canonical value trees give different output text; in particular
\* [{a:{x:1}, b:2}] and [{a:{x:1, b:2}}] are rendered differently, and so are
\* a field named a[1] with value 1 and a field a holding the array [1].
C13_Unambiguous ==
  (pc = "returned" /\ input[1] # input[2]) => out[1] # out[2]

====
